---- MODULE Spec2Model ----
(***************************************************************************)
(* Model of the ZELE e-commerce backend (src/main.py, src/schemas.py):     *)
(* FastAPI request handlers over a document store.  Handler invocations    *)
(* are processes that advance one store call at a time, because the store  *)
(* calls are the only points at which invocations interleave.              *)
(***************************************************************************)
EXTENDS Integers, Sequences, FiniteSets, TLC

(***************************************************************************)
(* IEEE-754 binary64 arithmetic.  The Order and OrderItem amounts are      *)
(* Python floats.  A double x is the pair <<c, r>> with                    *)
(*     x = c/100 + r/(100 * 2^59),                                         *)
(* c whole cents and r the representation error in units of 2^-59 cents.   *)
(* Every double of magnitude >= 2^-7 is a multiple of 2^-59, so sums,      *)
(* differences and integer multiples of such doubles are exact pairs, and  *)
(* Round brings an exact pair to the nearest double (ties to even).        *)
(***************************************************************************)
Pow2(n) == 2 ^ n

\* 2^n modulo m, for n too large for 2^n to be written out: 2^n is the
\* product of three powers of two of about a third of the exponent each
Pow2Mod(n, m) ==
    LET a == n \div 3
    IN  ((((Pow2(a) % m) * (Pow2(a) % m)) % m) * (Pow2(n - 2 * a) % m)) % m

\* binary64 carries 53 significant bits: ulp(x) = 2^(e - 52) for 2^e <= x < 2^(e+1)
MantBits == 52
\* exponent of the binade that holds one cent: 2^-7 <= 0.01 < 2^-6
MinExp == 0 - (CHOOSE n \in 1..10 : Pow2(n - 1) < 100 /\ 100 <= Pow2(n))
\* the model's unit is 2^-59, the ulp of the doubles in that binade
UnitExp == MantBits - MinExp
\* largest binade the 32-bit pairs can hold
MaxExp == 13

FZero == <<0, 0>>
FNeg(x) == <<0 - x[1], 0 - x[2]>>
FIsNeg(x) == x[1] < 0 \/ (x[1] = 0 /\ x[2] < 0)
FAbsExact(x) == IF FIsNeg(x) THEN FNeg(x) ELSE x
\* x > y on doubles
FGt(x, y) == x[1] > y[1] \/ (x[1] = y[1] /\ x[2] > y[2])

\* x >= 2^e for an exact pair x >= 0
GeqPow2(x, e) ==
    IF e >= 0
    THEN x[1] > 100 * Pow2(e) \/ (x[1] = 100 * Pow2(e) /\ x[2] >= 0)
    ELSE LET s == x[1] * Pow2(0 - e)
         IN  s > 100 \/ (s = 100 /\ x[2] >= 0)

\* the binade of x > 0, or MinExp - 1 when x < 2^MinExp
Exponent(x) ==
    LET es == {e \in MinExp..MaxExp : GeqPow2(x, e)}
    IN  IF es = {} THEN MinExp - 1
        ELSE CHOOSE e \in es : \A f \in es : f <= e

\* x rounded to a multiple of the ulp U of its binade: down to lo, or up to
\* lo + 100 * U, whichever is nearer, and on a tie the one with the even
\* significand (rm is the distance from lo in units, M the ulp in units)
RoundTo(x, U, k, k2) ==
    LET M  == 100 * U
        rm == (x[2] + U * k) % M
        lo == x[2] - rm
        loOdd == ((U * k2 + lo) % (2 * M)) # 0
    IN  IF 2 * rm < M THEN <<x[1], lo>>
        ELSE IF 2 * rm > M THEN <<x[1], lo + M>>
        ELSE IF loOdd THEN <<x[1], lo + M>> ELSE <<x[1], lo>>

\* k: c * 2^59 is k ulps modulo 100 ulps, k2: modulo 200 ulps
RoundIn(x, e) ==
    IF e < MinExp THEN x
    ELSE RoundTo(x, Pow2(e + UnitExp - MantBits),
                 ((x[1] % 100) * Pow2Mod(MantBits - e, 100)) % 100,
                 ((x[1] % 200) * Pow2Mod(MantBits - e, 200)) % 200)

\* round an exact pair x >= 0 to the nearest double, ties to even
RoundPos(x) == RoundIn(x, Exponent(x))

Round(x) == IF FIsNeg(x) THEN FNeg(RoundPos(FNeg(x))) ELSE RoundPos(x)

\* float(literal): the double nearest the decimal amount of c cents
FromDec(c) == Round(<<c, 0>>)
\* x + y, x - y, x * n (n an int), abs(x)
FAdd(x, y) == Round(<<x[1] + y[1], x[2] + y[2]>>)
FSub(x, y) == Round(<<x[1] - y[1], x[2] - y[2]>>)
FMulInt(x, n) == Round(<<x[1] * n, x[2] * n>>)
FAbs(x) == FAbsExact(x)

(***************************************************************************)
(* Strings that handlers inspect character by character (the category of a *)
(* product, the category argument of list_products) are sequences of       *)
(* one-character strings.                                                  *)
(***************************************************************************)
Lower(ch) == IF ch = "A" THEN "a" ELSE IF ch = "B" THEN "b" ELSE ch
LowerStr(s) == [i \in 1..Len(s) |-> Lower(s[i])]

(***************************************************************************)
(* The document store.  One sequence of documents per collection, in       *)
(* insertion order; a document is its payload plus the store-assigned _id. *)
(***************************************************************************)
Collections == {"product", "review", "order", "newsletter", "contactmessage"}
EmptyDb == [c \in Collections |-> <<>>]
None == [none |-> TRUE]

\* create_document(collection, data): one insert, returns the new id
CreateDocument(store, coll, data, id) ==
    [store EXCEPT ![coll] = Append(@, data @@ [_id |-> id])]

\* the wire form of a store identifier: str(inserted_id)
Encode(id) == ToString(id)

\* db[coll].find_one({field: value}): the first match, or None
FindOne(store, coll, field, value) ==
    LET m == SelectSeq(store[coll], LAMBDA d : d[field] = value)
    IN  IF m = <<>> THEN None ELSE m[1]

TotalDocs(store) ==
    Len(store["product"]) + Len(store["review"]) + Len(store["order"])
        + Len(store["newsletter"]) + Len(store["contactmessage"])

(***************************************************************************)
(* The $regex filter of list_products: the pattern "^" + category + "$"    *)
(* with option i, searched in the stored category.  The category argument  *)
(* is pasted into the pattern as it is, so "." (any character), "*"        *)
(* (repetition of the character before it) and "|" (alternation) keep      *)
(* their pattern meaning; "^" binds to the first alternative and "$" to    *)
(* the last.                                                               *)
(***************************************************************************)
RECURSIVE SplitAlts(_)
SplitAlts(c) ==
    LET bars == {i \in 1..Len(c) : c[i] = "|"}
    IN  IF bars = {} THEN <<c>>
        ELSE LET k == CHOOSE i \in bars : \A j \in bars : i <= j
             IN  <<SubSeq(c, 1, k - 1)>> \o SplitAlts(SubSeq(c, k + 1, Len(c)))

\* one pattern character against one subject character, case-insensitively
CharMatch(a, ch) == a = "." \/ Lower(a) = Lower(ch)

\* the alternative pat matches a prefix of s (all of s when endAnchored)
RECURSIVE MatchAlt(_, _, _)
MatchAlt(pat, s, endAnchored) ==
    IF pat = <<>> THEN (~endAnchored \/ s = <<>>)
    ELSE IF Len(pat) >= 2 /\ pat[2] = "*"
    THEN \/ MatchAlt(SubSeq(pat, 3, Len(pat)), s, endAnchored)
         \/ (s # <<>> /\ CharMatch(pat[1], s[1]) /\ MatchAlt(pat, Tail(s), endAnchored))
    ELSE s # <<>> /\ CharMatch(pat[1], s[1]) /\ MatchAlt(Tail(pat), Tail(s), endAnchored)

\* the alternative matches somewhere in s (at its start when startAnchored)
SearchAlt(pat, s, startAnchored, endAnchored) ==
    \E k \in (IF startAnchored THEN {0} ELSE 0..Len(s)) :
        MatchAlt(pat, SubSeq(s, k + 1, Len(s)), endAnchored)

\* {"$regex": f"^{category}$", "$options": "i"} accepts the stored value s
RegexMatch(category, s) ==
    LET alts == SplitAlts(category)
    IN  \E i \in 1..Len(alts) : SearchAlt(alts[i], s, i = 1, i = Len(alts))

\* the patterns the store's pattern compiler accepts: "*" repeats a character
PatternCompiles(c) ==
    \A i \in 1..Len(c) : c[i] = "*" => (i > 1 /\ c[i - 1] \notin {"*", "|"})

(***************************************************************************)
(* State.  db is the store; nextId the next identifier the store assigns.  *)
(* Each worker p runs one handler invocation at a time: pc[p] is the store *)
(* call it is about to make ("idle": none), req[p] its validated request,  *)
(* loc[p] its local variables.  log records every completed invocation     *)
(* with its response and the store before and after it; calls counts the   *)
(* invocations started.                                                    *)
(***************************************************************************)
VARIABLES db, nextId, pc, req, loc, log, calls

vars == <<db, nextId, pc, req, loc, log, calls>>

NProcs == 2
Procs == 1..NProcs

NoReq == [op |-> "none"]
NoLoc == [before |-> EmptyDb, existing |-> None, i |-> 0, created |-> 0]

Init ==
    /\ db = EmptyDb
    /\ nextId = 1
    /\ pc = [p \in Procs |-> "idle"]
    /\ req = [p \in Procs |-> NoReq]
    /\ loc = [p \in Procs |-> NoLoc]
    /\ log = <<>>
    /\ calls = 0

\* the dispatcher hands a request to the first free worker
Free(p) == pc[p] = "idle" /\ \A q \in Procs : q < p => pc[q] # "idle"

\* the handler starts and runs up to its first store call
Begin(p, r, stage) ==
    /\ Free(p)
    /\ calls' = calls + 1
    /\ req' = [req EXCEPT ![p] = r]
    /\ loc' = [loc EXCEPT ![p] = [NoLoc EXCEPT !.before = db, !.i = 1]]
    /\ pc' = [pc EXCEPT ![p] = stage]
    /\ UNCHANGED <<db, nextId, log>>

Entry(r, status, body, before, after) ==
    [op |-> r.op, req |-> r, status |-> status, body |-> body,
     before |-> before, after |-> after]

\* the handler returns or raises before its first store call
Reject(p, r, status, body) ==
    /\ Free(p)
    /\ calls' = calls + 1
    /\ log' = Append(log, Entry(r, status, body, db, db))
    /\ UNCHANGED <<db, nextId, pc, req, loc>>

\* the handler returns or raises after a store call that left the store as `store`
Respond(p, status, body, store) ==
    /\ log' = Append(log, Entry(req[p], status, body, loc[p].before, store))
    /\ pc' = [pc EXCEPT ![p] = "idle"]
    /\ req' = [req EXCEPT ![p] = NoReq]
    /\ loc' = [loc EXCEPT ![p] = NoLoc]
    /\ UNCHANGED calls

\* the status code of a handler that returns: its decorator's status_code
StatusCode(op) ==
    CASE op = "create_product" -> 201
      [] op = "add_review" -> 201
      [] op = "create_order" -> 201
      [] op = "subscribe" -> 201
      [] op = "contact" -> 201
      [] OTHER -> 200

(***************************************************************************)
(* POST /api/products                                                      *)
(***************************************************************************)
\* the slug check never finds a conflict
CreateProductConflictNever(existing) == FALSE

CreateProductConflict(existing) == existing # None

CreateProductStart(p, product) ==
    Begin(p, [op |-> "create_product", product |-> product], "cp_find")

CreateProductFind(p) ==
    /\ pc[p] = "cp_find"
    /\ LET existing == FindOne(db, "product", "slug", req[p].product.slug)
       IN  IF CreateProductConflict(existing)
           THEN Respond(p, 400, [detail |-> "Slug already exists"], db)
           ELSE /\ pc' = [pc EXCEPT ![p] = "cp_insert"]
                /\ loc' = [loc EXCEPT ![p].existing = existing]
                /\ UNCHANGED <<req, log, calls>>
    /\ UNCHANGED <<db, nextId>>

\* the insert keyed by slug: a document with the slug already there is kept
CreateProductUpsert(p) ==
    /\ pc[p] = "cp_insert"
    /\ db' = IF FindOne(db, "product", "slug", req[p].product.slug) # None THEN db
             ELSE CreateDocument(db, "product", req[p].product, nextId)
    /\ nextId' = nextId + 1
    /\ Respond(p, StatusCode("create_product"), [id |-> Encode(nextId)], db')

CreateProductInsert(p) ==
    /\ pc[p] = "cp_insert"
    /\ db' = CreateDocument(db, "product", req[p].product, nextId)
    /\ nextId' = nextId + 1
    /\ Respond(p, StatusCode("create_product"), [id |-> Encode(nextId)], db')

(***************************************************************************)
(* POST /api/products/{product_id}/reviews                                 *)
(***************************************************************************)
\* the path and payload ids are never compared
ReviewMismatchNever(product_id, review) == FALSE

ReviewMismatch(product_id, review) == review.product_id # product_id

\* the review is written before the ids are compared
AddReviewWriteFirst(p, product_id, review) ==
    LET r == [op |-> "add_review", product_id |-> product_id, review |-> review]
    IN  /\ Free(p)
        /\ calls' = calls + 1
        /\ db' = CreateDocument(db, "review", review, nextId)
        /\ nextId' = nextId + 1
        /\ log' = Append(log,
                IF ReviewMismatch(product_id, review)
                THEN Entry(r, 400, [detail |-> "Mismatched product_id"], db, db')
                ELSE Entry(r, StatusCode("add_review"), [id |-> Encode(nextId)], db, db'))
        /\ UNCHANGED <<pc, req, loc>>

AddReviewStart(p, product_id, review) ==
    LET r == [op |-> "add_review", product_id |-> product_id, review |-> review]
    IN  IF ReviewMismatch(product_id, review)
        THEN Reject(p, r, 400, [detail |-> "Mismatched product_id"])
        ELSE Begin(p, r, "rev_insert")

AddReviewInsert(p) ==
    /\ pc[p] = "rev_insert"
    /\ db' = CreateDocument(db, "review", req[p].review, nextId)
    /\ nextId' = nextId + 1
    /\ Respond(p, StatusCode("add_review"), [id |-> Encode(nextId)], db')

(***************************************************************************)
(* POST /api/orders                                                        *)
(***************************************************************************)
\* pydantic's float fields: each decimal literal of the payload becomes a double
ParseOrder(wire) ==
    [items |-> [i \in 1..Len(wire.items) |->
                    [price |-> FromDec(wire.items[i].price),
                     quantity |-> wire.items[i].quantity]],
     subtotal |-> FromDec(wire.subtotal),
     shipping_cost |-> FromDec(wire.shipping_cost),
     total |-> FromDec(wire.total)]

\* sum(i.price * i.quantity for i in items): left to right from 0
RECURSIVE SumItems(_, _)
SumItems(items, n) ==
    IF n = 0 THEN FZero
    ELSE FAdd(SumItems(items, n - 1), FMulInt(items[n].price, items[n].quantity))

CalcSubtotal(order) == SumItems(order.items, Len(order.items))

\* the literal 0.01
Tolerance == FromDec(1)

\* the boundary excluded: a difference of exactly 0.01 is a mismatch
SubtotalMismatchStrict(order) ==
    ~FGt(Tolerance, FAbs(FSub(CalcSubtotal(order), order.subtotal)))

\* exact equality instead of the tolerance
SubtotalMismatchExact(order) == CalcSubtotal(order) # order.subtotal

SubtotalMismatch(order) ==
    FGt(FAbs(FSub(CalcSubtotal(order), order.subtotal)), Tolerance)

TotalMismatch(order) ==
    FGt(FAbs(FSub(FAdd(order.subtotal, order.shipping_cost), order.total)), Tolerance)

CreateOrderStart(p, wire) ==
    LET order == ParseOrder(wire)
        r == [op |-> "create_order", wire |-> wire, order |-> order]
    IN  IF SubtotalMismatch(order)
        THEN Reject(p, r, 400, [detail |-> "Subtotal mismatch"])
        ELSE IF TotalMismatch(order)
        THEN Reject(p, r, 400, [detail |-> "Total mismatch"])
        ELSE Begin(p, r, "ord_insert")

CreateOrderInsert(p) ==
    /\ pc[p] = "ord_insert"
    /\ db' = CreateDocument(db, "order", req[p].order, nextId)
    /\ nextId' = nextId + 1
    /\ Respond(p, StatusCode("create_order"), [id |-> Encode(nextId), status |-> "received"], db')

(***************************************************************************)
(* POST /api/newsletter                                                    *)
(***************************************************************************)
\* the subscription check never finds the email
SubscribeAlreadyNever(existing) == FALSE

SubscribeAlready(existing) == existing # None

\* 200 for the branch that creates nothing
SubscribeStatusByBranch(existing) == IF existing # None THEN 200 ELSE 201

\* the decorator's status_code, whichever branch returns
SubscribeStatus(existing) == StatusCode("subscribe")

SubscribeStart(p, news) ==
    Begin(p, [op |-> "subscribe", news |-> news], "sub_find")

SubscribeFind(p) ==
    /\ pc[p] = "sub_find"
    /\ LET existing == FindOne(db, "newsletter", "email", req[p].news.email)
       IN  IF SubscribeAlready(existing)
           THEN Respond(p, SubscribeStatus(existing), [status |-> "already_subscribed"], db)
           ELSE /\ pc' = [pc EXCEPT ![p] = "sub_insert"]
                /\ loc' = [loc EXCEPT ![p].existing = existing]
                /\ UNCHANGED <<req, log, calls>>
    /\ UNCHANGED <<db, nextId>>

SubscribeInsert(p) ==
    /\ pc[p] = "sub_insert"
    /\ db' = CreateDocument(db, "newsletter", req[p].news, nextId)
    /\ nextId' = nextId + 1
    /\ Respond(p, SubscribeStatus(loc[p].existing),
               [status |-> "subscribed", id |-> Encode(nextId)], db')

(***************************************************************************)
(* POST /api/contact                                                       *)
(***************************************************************************)
ContactStart(p, msg) == Begin(p, [op |-> "contact", msg |-> msg], "con_insert")

ContactInsert(p) ==
    /\ pc[p] = "con_insert"
    /\ db' = CreateDocument(db, "contactmessage", req[p].msg, nextId)
    /\ nextId' = nextId + 1
    /\ Respond(p, StatusCode("contact"), [status |-> "received", id |-> Encode(nextId)], db')

(***************************************************************************)
(* POST /api/seed                                                          *)
(***************************************************************************)
Samples ==
    << [slug |-> "cap-toe-oxford-nero",
        category |-> <<"f", "o", "r", "m", "a", "l">>, is_featured |-> TRUE],
       [slug |-> "handstitched-loafer-chestnut",
        category |-> <<"c", "a", "s", "u", "a", "l">>, is_featured |-> TRUE],
       [slug |-> "wholecut-espresso",
        category |-> <<"f", "o", "r", "m", "a", "l">>, is_featured |-> FALSE] >>

\* the seed loader never skips a sample
SeedSkipNever(existing) == FALSE

SeedSkip(existing) == existing # None

SeedStart(p) == Begin(p, [op |-> "seed"], "seed_find")

\* the loop moves to the next sample, or the handler returns after the last
SeedAdvance(p, created, store) ==
    IF loc[p].i = Len(Samples)
    THEN Respond(p, StatusCode("seed"), [seeded |-> created], store)
    ELSE /\ pc' = [pc EXCEPT ![p] = "seed_find"]
         /\ loc' = [loc EXCEPT ![p].i = @ + 1, ![p].created = created]
         /\ UNCHANGED <<req, log, calls>>

SeedFind(p) ==
    /\ pc[p] = "seed_find"
    /\ LET existing == FindOne(db, "product", "slug", Samples[loc[p].i].slug)
       IN  IF SeedSkip(existing)
           THEN SeedAdvance(p, loc[p].created, db)
           ELSE /\ pc' = [pc EXCEPT ![p] = "seed_insert"]
                /\ UNCHANGED <<req, loc, log, calls>>
    /\ UNCHANGED <<db, nextId>>

SeedInsert(p) ==
    /\ pc[p] = "seed_insert"
    /\ db' = CreateDocument(db, "product", Samples[loc[p].i], nextId)
    /\ nextId' = nextId + 1
    /\ SeedAdvance(p, loc[p].created + 1, db')

(***************************************************************************)
(* GET /api/products.  An optional query argument is <<>> (absent) or      *)
(* <<value>>.                                                              *)
(***************************************************************************)
\* d.pop("_id", None)
StripId(d) == [f \in DOMAIN d \ {"_id"} |-> d[f]]

\* the query q accepts document d
ListFilter(category, featured, d) ==
    /\ (category # <<>> /\ category[1] # <<>>) => RegexMatch(category[1], d.category)
    /\ featured # <<>> => d.is_featured = featured[1]

ListProductsStart(p, category, featured) ==
    Begin(p, [op |-> "list_products", category |-> category, featured |-> featured],
          "list_find")

ListProductsFind(p) ==
    /\ pc[p] = "list_find"
    /\ LET docs == SelectSeq(db["product"],
                             LAMBDA d : ListFilter(req[p].category, req[p].featured, d))
       IN  Respond(p, StatusCode("list_products"),
                   [products |-> [i \in 1..Len(docs) |-> StripId(docs[i])]], db)
    /\ UNCHANGED <<db, nextId>>

(***************************************************************************)
(* A store call fails (the connection cannot be established, or the call   *)
(* times out): the exception propagates and the caller gets a 5xx.         *)
(***************************************************************************)
StoreCalls ==
    {"cp_find", "cp_insert", "rev_insert", "ord_insert", "sub_find", "sub_insert",
     "con_insert", "seed_find", "seed_insert", "list_find"}

StoreFail(p) ==
    /\ pc[p] \in StoreCalls
    /\ Respond(p, 500, [detail |-> "Internal Server Error"], db)
    /\ UNCHANGED <<db, nextId>>

(***************************************************************************)
(* Requests.  Validated payloads drawn from small sets; the fields no      *)
(* handler reads are left out.                                             *)
(***************************************************************************)
Slugs == {"cap-toe-oxford-nero", "derby-noce"}
Products == {[slug |-> s, category |-> <<"n", "e", "w">>, is_featured |-> FALSE] : s \in Slugs}
Emails == {"ana@zele.shop", "bo@zele.shop"}
News == {[email |-> e] : e \in Emails}
\* "1" is the wire id of the first document the store holds, "abc" of none
ProductIds == {"1", "abc"}
Reviews == {[product_id |-> q, rating |-> 5] : q \in ProductIds}
Messages == {[email |-> "ana@zele.shop", subject |-> "sizing"]}

\* order payloads on the wire: amounts are decimal literals, written in cents
Item(price, quantity) == [price |-> price, quantity |-> quantity]
Wire(items, subtotal, shipping_cost, total) ==
    [items |-> items, subtotal |-> subtotal, shipping_cost |-> shipping_cost,
     total |-> total]
ItemLists ==
    { <<>>,
      <<Item(10000, 2)>>,
      <<Item(101, 1)>>,
      <<Item(10, 3)>>,
      <<Item(10000, 1), Item(10000, 1)>> }
SubtotalLits == {1, 29, 100, 19999, 20000}
ShipLits == {0, 1000}
TotalLits == {1, 2, 1100, 20999, 21000}
Orders ==
    {Wire(items, s, c, t) : items \in ItemLists, s \in SubtotalLits,
                            c \in ShipLits, t \in TotalLits}
SampleOrders ==
    { Wire(<<Item(10000, 2)>>, 20000, 1000, 21000),
      Wire(<<Item(10000, 2)>>, 100, 1000, 21000),
      Wire(<<Item(10000, 2)>>, 20000, 1000, 100) }

\* categories and category arguments: strings of at most MaxCatLen characters
MaxCatLen == 2
Letters == {"a", "A"}
Specials == {".", "*", "|"}
Strings(chars, n) == UNION {[1..k -> chars] : k \in 0..n}
StoredCategories == Strings(Letters, MaxCatLen) \ {<<>>}
CategoryArgs == {c \in Strings(Letters \cup Specials, MaxCatLen) : PatternCompiles(c)}
CatalogProducts ==
    {[slug |-> s, category |-> c, is_featured |-> (s = "derby-noce")] :
        s \in Slugs, c \in StoredCategories}

(***************************************************************************)
(* Specifications.                                                         *)
(***************************************************************************)
MaxCalls == 3
MaxRaceCalls == 4
MaxOrderCalls == 1
MaxListCalls == 3

\* no invocation is in flight
AllIdle == \A q \in Procs : pc[q] = "idle"

\* Spec: invocations of create_product and subscribe, the handlers that check
\* for a key and then insert, interleave at their store calls
Next ==
    \E p \in Procs :
        \/ calls < MaxRaceCalls /\ \E product \in Products : CreateProductStart(p, product)
        \/ calls < MaxRaceCalls /\ \E news \in News : SubscribeStart(p, news)
        \/ CreateProductFind(p)
        \/ CreateProductInsert(p)
        \/ SubscribeFind(p)
        \/ SubscribeInsert(p)

Spec == Init /\ [][Next]_vars

\* SeqSpec: the writing handlers, one invocation at a time: a request is
\* dispatched only when no invocation is in flight
SeqNext ==
    \E p \in Procs :
        \/ AllIdle /\ calls < MaxCalls /\ \E product \in Products : CreateProductStart(p, product)
        \/ AllIdle /\ calls < MaxCalls /\ \E q \in ProductIds, review \in Reviews :
                                              AddReviewStart(p, q, review)
        \/ AllIdle /\ calls < MaxCalls /\ \E wire \in SampleOrders : CreateOrderStart(p, wire)
        \/ AllIdle /\ calls < MaxCalls /\ \E news \in News : SubscribeStart(p, news)
        \/ AllIdle /\ calls < MaxCalls /\ \E msg \in Messages : ContactStart(p, msg)
        \/ AllIdle /\ calls < MaxCalls /\ SeedStart(p)
        \/ CreateProductFind(p)
        \/ CreateProductInsert(p)
        \/ AddReviewInsert(p)
        \/ CreateOrderInsert(p)
        \/ SubscribeFind(p)
        \/ SubscribeInsert(p)
        \/ ContactInsert(p)
        \/ SeedFind(p)
        \/ SeedInsert(p)

SeqSpec == Init /\ [][SeqNext]_vars

\* FaultSpec: as SeqSpec, and any store call may fail
FaultNext == SeqNext \/ \E p \in Procs : StoreFail(p)

FaultSpec == Init /\ [][FaultNext]_vars

\* OrderSpec: create_order over the order payloads, one invocation at a time
OrderNext ==
    \E p \in Procs :
        \/ AllIdle /\ calls < MaxOrderCalls /\ \E wire \in Orders : CreateOrderStart(p, wire)
        \/ CreateOrderInsert(p)

OrderSpec == Init /\ [][OrderNext]_vars

\* ListSpec: a catalogue is created and listed, one invocation at a time
ListNext ==
    \E p \in Procs :
        \/ AllIdle /\ calls < MaxListCalls
                   /\ \E product \in CatalogProducts : CreateProductStart(p, product)
        \/ AllIdle /\ calls < MaxListCalls
                   /\ \E c \in {<<>>} \cup {<<a>> : a \in CategoryArgs},
                         f \in {<<>>, <<TRUE>>, <<FALSE>>} : ListProductsStart(p, c, f)
        \/ CreateProductFind(p)
        \/ CreateProductInsert(p)
        \/ ListProductsFind(p)

ListSpec == Init /\ [][ListNext]_vars

(***************************************************************************)
(* Properties.                                                             *)
(***************************************************************************)
Count(docs, field, value) == Cardinality({i \in 1..Len(docs) : docs[i][field] = value})
Has(docs, field, value) == \E i \in 1..Len(docs) : docs[i][field] = value
Done(op) == {k \in 1..Len(log) : log[k].op = op}
\* the store `after` is `before` plus the one document `data` under the wire id
InsertedOne(before, after, coll, data, wireId) ==
    \E id \in 1..TotalDocs(after) :
        Encode(id) = wireId /\ after = CreateDocument(before, coll, data, id)

\* C1: with invocations one at a time, no two product documents share a slug;
\* a create-product call whose slug is present answers 400 and leaves the
\* store as it was, one whose slug is absent inserts exactly one document.
C1_SlugUnique ==
    /\ \A s \in Slugs : Count(db["product"], "slug", s) <= 1
    /\ \A k \in Done("create_product") :
        LET e == log[k]
        IN  IF Has(e.before["product"], "slug", e.req.product.slug)
            THEN /\ e.status = 400
                 /\ e.body = [detail |-> "Slug already exists"]
                 /\ e.after = e.before
            ELSE /\ e.status = 201
                 /\ DOMAIN e.body = {"id"}
                 /\ InsertedOne(e.before, e.after, "product", e.req.product, e.body.id)

\* a create-product call was refused because an earlier one took the slug
C1_Witness ==
    \E k \in Done("create_product"), j \in Done("create_product") :
        /\ j < k
        /\ log[j].status = 201
        /\ log[k].req.product.slug = log[j].req.product.slug
        /\ log[k].status = 400
        /\ Len(db["product"]) = 1

Created(slug) ==
    {k \in Done("create_product") : log[k].status = 201 /\ log[k].req.product.slug = slug}
Subscribed(email) ==
    {k \in Done("subscribe") : log[k].body.status = "subscribed" /\ log[k].req.news.email = email}

\* C2: nothing stands between the existence check and the insert: every
\* invocation that passed its check inserts a document of its own, whatever
\* the store holds by then, so the collection holds exactly one document per
\* successful create-product call of a slug and one per "subscribed" answer of
\* an email, also when those calls had the same key.
C2_OneDocumentPerSuccess ==
    /\ \A s \in Slugs : Count(db["product"], "slug", s) = Cardinality(Created(s))
    /\ \A m \in Emails : Count(db["newsletter"], "email", m) = Cardinality(Subscribed(m))

\* two create-product calls with one slug both answered 201, two subscribe
\* calls with one email both answered "subscribed", and the collections hold
\* two documents with that slug and two with that email
C2_Witness ==
    /\ \E s \in Slugs :
        Cardinality(Created(s)) = 2 /\ Count(db["product"], "slug", s) = 2
    /\ \E m \in Emails :
        Cardinality(Subscribed(m)) = 2 /\ Count(db["newsletter"], "email", m) = 2

\* C5: with invocations one at a time, the first subscribe of an email inserts
\* one newsletter document and answers {status: "subscribed", id}; every later
\* one answers {status: "already_subscribed"} with no id and leaves the store
\* as it was; the collection holds at most one document per email.
C5_SubscribeOnce ==
    /\ \A m \in Emails : Count(db["newsletter"], "email", m) <= 1
    /\ \A k \in Done("subscribe") :
        LET e == log[k]
            first == \A j \in Done("subscribe") :
                        j < k => log[j].req.news.email # e.req.news.email
        IN  IF first
            THEN /\ DOMAIN e.body = {"status", "id"}
                 /\ e.body.status = "subscribed"
                 /\ InsertedOne(e.before, e.after, "newsletter", e.req.news, e.body.id)
            ELSE /\ e.body = [status |-> "already_subscribed"]
                 /\ e.after = e.before

\* an email was subscribed, then subscribed again
C5_Witness ==
    \E k \in Done("subscribe") :
        /\ log[k].body = [status |-> "already_subscribed"]
        /\ Count(db["newsletter"], "email", log[k].req.news.email) = 1

\* C7: add review with path id p and payload id q answers 400 and leaves the
\* review collection as it was when p differs from q, and inserts exactly one
\* review and returns its wire id when they are equal, whether or not a
\* product with that id exists.
C7_ReviewReference ==
    \A k \in Done("add_review") :
        LET e == log[k]
        IN  IF e.req.product_id # e.req.review.product_id
            THEN /\ e.status = 400
                 /\ e.body = [detail |-> "Mismatched product_id"]
                 /\ e.after = e.before
            ELSE /\ e.status = 201
                 /\ DOMAIN e.body = {"id"}
                 /\ InsertedOne(e.before, e.after, "review", e.req.review, e.body.id)

ProductExists(store, wireId) ==
    \E i \in 1..Len(store["product"]) : Encode(store["product"][i]._id) = wireId

\* one review was accepted for a product that exists and one for an id that
\* no product has
C7_Witness ==
    /\ \E k \in Done("add_review") :
        log[k].status = 201 /\ ProductExists(log[k].before, log[k].req.product_id)
    /\ \E k \in Done("add_review") :
        log[k].status = 201 /\ ~ProductExists(log[k].before, log[k].req.product_id)

\* abs(a - b) <= 0.01, as the handler's float arithmetic evaluates it
WithinTolerance(a, b) == ~FGt(FAbs(FSub(a, b)), FromDec(1))
SubtotalOk(order) == WithinTolerance(CalcSubtotal(order), order.subtotal)
TotalOk(order) == WithinTolerance(FAdd(order.subtotal, order.shipping_cost), order.total)

C4_Order(subtotal, total) == Wire(<<Item(10000, 2)>>, subtotal, 1000, total)

\* C4 as stated: with total=210 a stated subtotal of 199.99 is refused with
\* "Subtotal mismatch" and nothing is written, and with subtotal=200 a stated
\* total of 209.99 is accepted.
C4_Original ==
    \A k \in Done("create_order") :
        LET e == log[k]
        IN  /\ e.req.wire = C4_Order(19999, 21000) =>
                /\ e.status = 400
                /\ e.body = [detail |-> "Subtotal mismatch"]
                /\ e.after = e.before
            /\ e.req.wire = C4_Order(20000, 20999) => e.status = 201

\* C4 amended: the stated subtotal of 199.99 is accepted as well, and in both
\* cases one order document is written.
C4_BothAccepted ==
    \A k \in Done("create_order") :
        LET e == log[k]
        IN  e.req.wire \in {C4_Order(19999, 21000), C4_Order(20000, 20999)} =>
                /\ e.status = 201
                /\ InsertedOne(e.before, e.after, "order", e.req.order, e.body.id)

\* the order with the stated subtotal of 199.99 was accepted and stored
C4_Witness ==
    \E k \in Done("create_order") :
        /\ log[k].req.wire = C4_Order(19999, 21000)
        /\ log[k].status = 201
        /\ Len(db["order"]) = 1

Inserted(e) == TotalDocs(e.after) - TotalDocs(e.before)
\* `after` is `before` with documents appended to the product collection only
ProductsAppended(before, after) ==
    /\ \A c \in Collections \ {"product"} : after[c] = before[c]
    /\ Len(after["product"]) >= Len(before["product"])
    /\ SubSeq(after["product"], 1, Len(before["product"])) = before["product"]
NewProducts(before, after) ==
    {StripId(after["product"][i]) : i \in (Len(before["product"]) + 1)..Len(after["product"])}
Canned == {Samples[i] : i \in 1..Len(Samples)}

\* C6 as stated: every invocation inserts at most one document, and one that
\* ends in an error, a failed store call included, leaves the store as it was.
C6_Original ==
    \A k \in 1..Len(log) :
        /\ Inserted(log[k]) <= 1
        /\ log[k].status >= 400 => log[k].after = log[k].before

\* C6 amended: that holds of every operation but seed; a seed invocation
\* inserts up to three documents, all canned products, and one that ends in
\* an error keeps the canned products it inserted before the error.
C6_AtMostOneInsertButSeed ==
    \A k \in 1..Len(log) :
        LET e == log[k]
        IN  IF e.op # "seed"
            THEN /\ Inserted(e) \in {0, 1}
                 /\ e.status >= 400 => e.after = e.before
            ELSE /\ Inserted(e) \in 0..Len(Samples)
                 /\ ProductsAppended(e.before, e.after)
                 /\ NewProducts(e.before, e.after) \subseteq Canned

\* a create-order call failed at its insert and left the store as it was, and
\* a seed call failed after it had inserted
C6_Witness ==
    /\ \E k \in Done("create_order") : log[k].status = 500 /\ log[k].after = log[k].before
    /\ \E k \in Done("seed") : log[k].status = 500 /\ Inserted(log[k]) >= 1

\* the samples whose slug the store does not hold
Absent(store) == {i \in 1..Len(Samples) : ~Has(store["product"], "slug", Samples[i].slug)}

\* C8: with invocations one at a time, a seed call inserts exactly the canned
\* products whose slugs are absent and returns their number as `seeded`; a
\* seed call that follows a seed call at once returns seeded: 0 and inserts
\* nothing; no canned slug is ever in two product documents.
C8_SeedIdempotent ==
    /\ \A k \in Done("seed") :
        LET e == log[k]
        IN  /\ e.status = 200
            /\ e.body = [seeded |-> Cardinality(Absent(e.before))]
            /\ Inserted(e) = Cardinality(Absent(e.before))
            /\ ProductsAppended(e.before, e.after)
            /\ NewProducts(e.before, e.after) = {Samples[i] : i \in Absent(e.before)}
            /\ (k > 1 /\ log[k - 1].op = "seed") =>
                    e.body = [seeded |-> 0] /\ e.after = e.before
    /\ \A i \in 1..Len(Samples) : Count(db["product"], "slug", Samples[i].slug) <= 1

\* a seed call found one canned slug taken and inserted the other two, and the
\* seed call after it inserted nothing
C8_Witness ==
    \E k \in Done("seed") :
        /\ k > 1
        /\ log[k - 1].op = "seed"
        /\ log[k - 1].body = [seeded |-> 2]
        /\ log[k].body = [seeded |-> 0]
        /\ Len(db["product"]) = 3

\* C9: list products with a category argument c returns exactly the products
\* whose category equals c, both compared case-insensitively as whole
\* strings, whatever characters c holds.
C9_ExactCategory ==
    \A k \in Done("list_products") :
        LET e == log[k]
            c == e.req.category
            products == e.before["product"]
            equal == SelectSeq(products,
                               LAMBDA d : LowerStr(d.category) = LowerStr(c[1]))
        IN  (c # <<>> /\ c[1] # <<>> /\ e.req.featured = <<>>) =>
                e.body.products = [i \in 1..Len(equal) |-> StripId(equal[i])]

\* C10 as stated: subscribe answers 201 when it creates the subscription and
\* 200 when the email is already subscribed.
C10_Original ==
    \A k \in Done("subscribe") :
        /\ log[k].body.status = "subscribed" => log[k].status = 201
        /\ log[k].body.status = "already_subscribed" => log[k].status = 200

\* C10 amended: subscribe answers 201 in both cases.
C10_Always201 ==
    \A k \in Done("subscribe") :
        /\ log[k].body.status \in {"subscribed", "already_subscribed"}
        /\ log[k].status = 201

\* an already subscribed email was answered
C10_Witness ==
    \E k \in Done("subscribe") :
        log[k].body.status = "already_subscribed" /\ log[k].status = 201
====
